---- MODULE Spec2Model ----
(***************************************************************************)
(* A model of cinder/api/contrib/cgsnapshots.py: CgsnapshotsController,    *)
(* the REST controller that presents one "cgsnapshot" resource over two    *)
(* backend APIs, the legacy consistency-group API (self.cgsnapshot_api)    *)
(* and the generic-group API (self.group_snapshot_api).                    *)
(*                                                                         *)
(* The two backends are external collaborators.  Each is modelled by the   *)
(* set of snapshot ids and the set of group ids it holds, and each call    *)
(* to it is one atomic step whose outcome is either the answer its store   *)
(* gives or a failure the backend raises on its own.  A request is         *)
(* handled in steps, one per backend call; the controller's own code       *)
(* between two calls is folded into the step of the call it follows.       *)
(***************************************************************************)
EXTENDS Integers, Sequences, FiniteSets, TLC

VARIABLES
    legacySnaps,    \* snapshot ids held by the legacy backend (cgsnapshot_api)
    modernSnaps,    \* snapshot ids held by the modern backend (group_snapshot_api)
    legacyGroups,   \* group ids held by the legacy backend
    modernGroups,   \* group ids held by the modern backend
    pc,             \* position of the request being handled
    req,            \* the request being handled
    calls,          \* backend calls made so far by this request, in order
    resolved,       \* what _get_cgsnapshot / _get_cg returned or raised
    listed,         \* what the two get_all calls of a listing returned
    resp,           \* how the request ended
    before          \* what the backends held, of the kind of object the request
                    \* is about, when the request began

vars == <<legacySnaps, modernSnaps, legacyGroups, modernGroups,
          pc, req, calls, resolved, listed, resp, before>>

stores == <<legacySnaps, modernSnaps, legacyGroups, modernGroups>>

----------------------------------------------------------------------------
(* Bounds of the model *)

MaxSnap == 3
MaxGroup == 1
MaxLimit == 2
MaxOffset == 1

SnapIds == 1..MaxSnap
GroupIds == 1..MaxGroup

\* The value of a key that the request body does not hold (KeyError).
NoId == 0

----------------------------------------------------------------------------
(* Failure kinds: the exception classes the controller names, and one kind *)
(* for every other exception a backend may raise.                          *)

SnapshotNotFoundKinds == {"CgSnapshotNotFound", "GroupSnapshotNotFound"}

GroupNotFoundKinds == {"ConsistencyGroupNotFound", "GroupNotFound"}

NotFoundKinds == SnapshotNotFoundKinds \cup GroupNotFoundKinds

InvalidSnapshotKinds == {"InvalidCgSnapshot", "InvalidGroupSnapshot"}

CreateInvalidKinds ==
    {"InvalidCgSnapshot", "InvalidConsistencyGroup", "InvalidGroup",
     "InvalidGroupSnapshot", "InvalidVolume"}

Kinds == NotFoundKinds \cup CreateInvalidKinds \cup {"Unexpected"}

\* The not-found failure a family's get call raises for an absent id.
OwnNotFound(family, obj) ==
    CASE family = "legacy" /\ obj = "snapshot" -> "CgSnapshotNotFound"
      [] family = "modern" /\ obj = "snapshot" -> "GroupSnapshotNotFound"
      [] family = "legacy" /\ obj = "group"    -> "ConsistencyGroupNotFound"
      [] family = "modern" /\ obj = "group"    -> "GroupNotFound"

\* The type of the object a family's get call returns.  "Other" is an
\* object of neither type, the case the else branches of delete and create
\* are written for.
OwnTag(family, obj) ==
    CASE family = "legacy" /\ obj = "snapshot" -> "CGSnapshot"
      [] family = "modern" /\ obj = "snapshot" -> "GroupSnapshot"
      [] family = "legacy" /\ obj = "group"    -> "ConsistencyGroup"
      [] family = "modern" /\ obj = "group"    -> "Group"

ReturnTags(family, obj) == {OwnTag(family, obj), "Other"}

Store(family, obj) ==
    CASE family = "legacy" /\ obj = "snapshot" -> legacySnaps
      [] family = "modern" /\ obj = "snapshot" -> modernSnaps
      [] family = "legacy" /\ obj = "group"    -> legacyGroups
      [] family = "modern" /\ obj = "group"    -> modernGroups

\* The outcomes of one get call: the store's answer (found, or the family's
\* not-found), or any other failure, raised by the backend on its own.
GetOutcomes(family, obj, id) ==
    (IF id \in Store(family, obj)
       THEN {[out |-> "ok", tag |-> t, fault |-> FALSE] :
                t \in ReturnTags(family, obj)}
       ELSE {[out |-> OwnNotFound(family, obj), tag |-> "", fault |-> FALSE]})
    \cup {[out |-> k, tag |-> "", fault |-> TRUE] :
             k \in Kinds \ {OwnNotFound(family, obj)}}

----------------------------------------------------------------------------
(* Responses *)

NoResp == [kind |-> "none", status |-> 0, msg |-> "", items |-> <<>>]

OkResp(status, items) ==
    [kind |-> "ok", status |-> status, msg |-> "", items |-> items]

\* raise exc.HTTPBadRequest / exc.HTTPNotFound (explanation=msg)
Http(status, msg) ==
    [kind |-> "http", status |-> status, msg |-> msg, items |-> <<>>]

\* The status the wsgi layer gives an exception that leaves the controller.
BoundaryStatus(k) == IF k \in NotFoundKinds THEN 404 ELSE 500

\* An exception that leaves the controller and reaches the wsgi layer.
Raised(k) ==
    [kind |-> "raised", status |-> BoundaryStatus(k), msg |-> k,
     items |-> <<>>]

\* The view builder: the summary or the detail form of one entity.
Render(tag, id, form) == [form |-> form, tag |-> tag, id |-> id]

NoResolved == [st |-> "none", tag |-> "", family |-> "", kind |-> ""]

NoReq ==
    [op |-> "none", id |-> NoId, shape |-> "ok", nameOk |-> TRUE,
     limit |-> 0, offset |-> 0]

NoListed == [legacy |-> <<>>, modern |-> <<>>]

NoBefore == [legacy |-> {}, modern |-> {}]

----------------------------------------------------------------------------
(* The controller's decisions *)

\* A lookup that asks the modern API first.
LookupOrderModernFirst == <<"modern", "legacy">>

\* _get_cgsnapshot, _get_cg: the legacy API is asked first and the modern
\* API second.
LookupOrder == <<"legacy", "modern">>

\* An except clause that catches every failure of the first lookup.
FallsBackOnAnyFailure(k, obj) == TRUE

\* _get_cgsnapshot, _get_cg: the except clause.  Only the not-found of the
\* family asked first starts the second lookup.
FallsBack(k, obj) == k = OwnNotFound(LookupOrder[1], obj)

\* An isinstance chain with the two backends exchanged.
DeleteTargetSwapped(tag) ==
    IF tag = "CGSnapshot" THEN "modern"
    ELSE IF tag = "GroupSnapshot" THEN "legacy"
    ELSE "none"

\* delete: the isinstance chain that picks the backend to call.
DeleteTarget(tag) ==
    IF tag = "CGSnapshot" THEN "legacy"
    ELSE IF tag = "GroupSnapshot" THEN "modern"
    ELSE "none"

\* Except clauses without the one for the invalid-snapshot failures.
DeleteMapFailureNoInvalidClause(k) ==
    IF k \in {"CgSnapshotNotFound", "GroupSnapshotNotFound"} THEN Raised(k)
    ELSE Http(400, "Failed cgsnapshot")

\* Except clauses without the one that re-raises the snapshot not-founds.
DeleteMapFailureNoReraise(k) ==
    IF k \in {"InvalidCgSnapshot", "InvalidGroupSnapshot"} THEN Http(400, k)
    ELSE Http(400, "Failed cgsnapshot")

\* Except clauses without the final catch-all.
DeleteMapFailureNoCatchAll(k) ==
    IF k \in {"CgSnapshotNotFound", "GroupSnapshotNotFound"} THEN Raised(k)
    ELSE IF k \in {"InvalidCgSnapshot", "InvalidGroupSnapshot"}
         THEN Http(400, k)
    ELSE IF k = "HTTPNotFound" THEN Http(404, "Group snapshot not found.")
    ELSE Raised(k)

\* delete: the except clauses around the whole body, in their order.  The
\* HTTPNotFound raised in the else branch is raised inside the try.
DeleteMapFailure(k) ==
    IF k \in {"CgSnapshotNotFound", "GroupSnapshotNotFound"} THEN Raised(k)
    ELSE IF k \in {"InvalidCgSnapshot", "InvalidGroupSnapshot"}
         THEN Http(400, k)
    ELSE Http(400, "Failed cgsnapshot")

\* A key lookup that never fails, such as cgsnapshot.get(...).
GroupIdPresentAlways(body) == TRUE

\* create: the key lookup cgsnapshot['consistencygroup_id'].
GroupIdPresent(body) == body.id # NoId

\* create: the checks made before any backend is called, in their order.
CreateValidation(body) ==
    IF body.shape # "ok" THEN "malformed"
    ELSE IF ~body.nameOk THEN "bad_name"
    ELSE IF ~GroupIdPresent(body) THEN "missing_group"
    ELSE "ok"

\* An isinstance chain that takes every group that is not modern for legacy.
CreateTargetNoElse(tag) ==
    IF tag = "Group" THEN "modern" ELSE "legacy"

\* create: the isinstance chain that picks the backend to call.
CreateTarget(tag) ==
    IF tag = "ConsistencyGroup" THEN "legacy"
    ELSE IF tag = "Group" THEN "modern"
    ELSE "none"

\* create: the except clause around the dispatch.  The HTTPNotFound raised
\* in the else branch is not one of the classes it names.
CreateMapFailure(k) ==
    IF k \in CreateInvalidKinds THEN Http(400, k)
    ELSE IF k = "HTTPNotFound" THEN Http(404, "Group not found.")
    ELSE Raised(k)

----------------------------------------------------------------------------
(* Listing *)

Min(a, b) == IF a <= b THEN a ELSE b

Max(a, b) == IF a >= b THEN a ELSE b

RECURSIVE Ascending(_)
Ascending(S) ==
    IF S = {} THEN <<>>
    ELSE LET m == CHOOSE x \in S : \A y \in S : x <= y
         IN  <<m>> \o Ascending(S \ {m})

Reverse(s) == [i \in 1..Len(s) |-> s[Len(s) + 1 - i]]

\* The orders in which a backend's get_all may return what it holds: the
\* backend sorts its listing, in one direction or the other.
Orderings(S) == {Ascending(S), Reverse(Ascending(S))}

\* common.limited: items[offset : offset + limit]; limit 0 is no limit given.
Limited(items, limit, offset) ==
    LET n  == Len(items)
        hi == IF limit = 0 THEN n ELSE Min(n, offset + limit)
    IN  IF offset >= n THEN <<>> ELSE SubSeq(items, offset + 1, hi)

\* The view builder's summary_list / detail_list: each item in its form.
RenderList(ids, tag, form) ==
    [i \in 1..Len(ids) |-> Render(tag, ids[i], form)]

\* A listing that limits the concatenation instead of each part.
ListResultLimitMerged(L, M, limit, offset, form) ==
    Limited(RenderList(L, "CGSnapshot", form)
                \o RenderList(M, "GroupSnapshot", form), limit, offset)

\* _get_cgsnapshots: each listing is limited on its own, rendered, and the
\* two rendered lists are concatenated, the legacy one first.
ListResult(L, M, limit, offset, form) ==
    RenderList(Limited(L, limit, offset), "CGSnapshot", form)
        \o RenderList(Limited(M, limit, offset), "GroupSnapshot", form)

----------------------------------------------------------------------------
(* Requests *)

Init ==
    /\ legacySnaps \in SUBSET SnapIds
    /\ modernSnaps \in SUBSET SnapIds
    /\ legacyGroups \in SUBSET GroupIds
    /\ modernGroups \in SUBSET GroupIds
    /\ pc = "idle"
    /\ req = NoReq
    /\ calls = <<>>
    /\ resolved = NoResolved
    /\ listed = NoListed
    /\ resp = NoResp
    /\ before = NoBefore

ObjOf(op) == IF op = "create" THEN "group" ELSE "snapshot"

Call(family, op, out, fault) ==
    [family |-> family, op |-> op, out |-> out, fault |-> fault]

\* A request arrives: nothing of the previous one is kept.
Begin(r) ==
    /\ pc = "idle"
    /\ req' = r
    /\ resolved' = NoResolved
    /\ before' = [legacy |-> Store("legacy", ObjOf(r.op)),
                   modern |-> Store("modern", ObjOf(r.op))]
    /\ UNCHANGED stores

\* show, up to its call of _get_cgsnapshot.
Show ==
    \E id \in SnapIds :
        /\ Begin([NoReq EXCEPT !.op = "show", !.id = id])
        /\ pc' = "get1"
        /\ calls' = <<>>
        /\ listed' = NoListed
        /\ resp' = NoResp

\* delete, up to its call of _get_cgsnapshot.
Delete ==
    \E id \in SnapIds :
        /\ Begin([NoReq EXCEPT !.op = "delete", !.id = id])
        /\ pc' = "get1"
        /\ calls' = <<>>
        /\ listed' = NoListed
        /\ resp' = NoResp

\* create, up to its call of _get_cg: the body is checked first.
Create ==
    \E shape \in {"ok", "malformed"}, nameOk \in BOOLEAN,
       gid \in GroupIds \cup {NoId} :
        LET body == [NoReq EXCEPT !.op = "create", !.id = gid,
                                  !.shape = shape, !.nameOk = nameOk]
            v    == CreateValidation(body)
        IN  /\ Begin(body)
            /\ calls' = <<>>
            /\ listed' = NoListed
            /\ IF v = "ok"
                 THEN pc' = "get1" /\ resp' = NoResp
                 ELSE /\ pc' = "done"
                      /\ resp' = CASE v = "malformed" ->
                                       Http(400, "Missing required element")
                                   [] v = "bad_name" ->
                                       Http(400, "Invalid name or description")
                                   [] v = "missing_group" ->
                                       Http(400, "'consistencygroup_id' must be specified")

\* _get_cgsnapshots: two get_all calls, each result limited with the
\* request's window, rendered in the asked form, and concatenated.
GetCgsnapshots(op, form) ==
    \E limit \in 0..MaxLimit, offset \in 0..MaxOffset,
       L \in Orderings(legacySnaps), M \in Orderings(modernSnaps) :
        /\ Begin([NoReq EXCEPT !.op = op, !.limit = limit, !.offset = offset])
        /\ calls' = <<Call("legacy", "get_all", "ok", FALSE),
                      Call("modern", "get_all", "ok", FALSE)>>
        /\ listed' = [legacy |-> L, modern |-> M]
        /\ resp' = OkResp(200, ListResult(L, M, limit, offset, form))
        /\ pc' = "done"

Index == GetCgsnapshots("index", "summary")

Detail == GetCgsnapshots("detail", "detail")

\* The lookup returned an entity: show renders it, delete and create go on
\* to their dispatch.
Found(family, tag) ==
    /\ resolved' = [st |-> "ok", tag |-> tag, family |-> family, kind |-> ""]
    /\ IF req.op = "show"
         THEN /\ pc' = "done"
              /\ resp' = OkResp(200, <<Render(tag, req.id, "detail")>>)
         ELSE /\ pc' = "dispatch"
              /\ resp' = resp

\* The lookup raised k: in delete the call is inside the try, in show and
\* create nothing catches it.
NotResolved(k) ==
    /\ resolved' = [st |-> "fail", tag |-> "", family |-> "", kind |-> k]
    /\ pc' = "done"
    /\ resp' = IF req.op = "delete" THEN DeleteMapFailure(k) ELSE Raised(k)

\* _get_cgsnapshot / _get_cg: the call inside the try.
Get1 ==
    /\ pc = "get1"
    /\ \E o \in GetOutcomes(LookupOrder[1], ObjOf(req.op), req.id) :
        /\ calls' = Append(calls, Call(LookupOrder[1], "get", o.out, o.fault))
        /\ IF o.out = "ok" THEN Found(LookupOrder[1], o.tag)
           ELSE IF FallsBack(o.out, ObjOf(req.op))
                THEN pc' = "get2" /\ UNCHANGED <<resolved, resp>>
           ELSE NotResolved(o.out)
    /\ UNCHANGED <<stores, req, listed, before>>

\* _get_cgsnapshot / _get_cg: the call inside the except clause.
Get2 ==
    /\ pc = "get2"
    /\ \E o \in GetOutcomes(LookupOrder[2], ObjOf(req.op), req.id) :
        /\ calls' = Append(calls, Call(LookupOrder[2], "get", o.out, o.fault))
        /\ IF o.out = "ok" THEN Found(LookupOrder[2], o.tag)
           ELSE NotResolved(o.out)
    /\ UNCHANGED <<stores, req, listed, before>>

\* delete, after _get_cgsnapshot returned: the dispatch on the entity's type
\* and the backend's delete call, whose failures the except clauses map.
DeleteDispatch ==
    /\ pc = "dispatch"
    /\ req.op = "delete"
    /\ LET t == DeleteTarget(resolved.tag)
       IN  IF t = "none"
             THEN /\ calls' = calls
                  /\ resp' = DeleteMapFailure("HTTPNotFound")
                  /\ UNCHANGED <<legacySnaps, modernSnaps>>
             ELSE \E o \in {"ok"} \cup Kinds :
                    /\ calls' = Append(calls, Call(t, "delete", o, o # "ok"))
                    /\ IF o = "ok"
                         THEN /\ resp' = OkResp(202, <<>>)
                              /\ legacySnaps' = IF t = "legacy"
                                                  THEN legacySnaps \ {req.id}
                                                  ELSE legacySnaps
                              /\ modernSnaps' = IF t = "modern"
                                                  THEN modernSnaps \ {req.id}
                                                  ELSE modernSnaps
                         ELSE /\ resp' = DeleteMapFailure(o)
                              /\ UNCHANGED <<legacySnaps, modernSnaps>>
    /\ pc' = "done"
    /\ UNCHANGED <<legacyGroups, modernGroups, req, resolved, listed, before>>

\* create, after _get_cg returned: the dispatch on the group's type and the
\* backend's create call, whose failures the except clause maps.
CreateDispatch ==
    /\ pc = "dispatch"
    /\ req.op = "create"
    /\ LET t == CreateTarget(resolved.tag)
       IN  IF t = "none"
             THEN /\ calls' = calls
                  /\ resp' = CreateMapFailure("HTTPNotFound")
                  /\ UNCHANGED <<legacySnaps, modernSnaps>>
             ELSE \E o \in {"ok"} \cup Kinds :
                    /\ calls' = Append(calls, Call(t, "create", o, o # "ok"))
                    /\ IF o = "ok"
                         THEN \E n \in SnapIds \ (legacySnaps \cup modernSnaps) :
                              /\ resp' = OkResp(202,
                                    <<Render(OwnTag(t, "snapshot"), n, "summary")>>)
                              /\ legacySnaps' = IF t = "legacy"
                                                  THEN legacySnaps \cup {n}
                                                  ELSE legacySnaps
                              /\ modernSnaps' = IF t = "modern"
                                                  THEN modernSnaps \cup {n}
                                                  ELSE modernSnaps
                         ELSE /\ resp' = CreateMapFailure(o)
                              /\ UNCHANGED <<legacySnaps, modernSnaps>>
    /\ pc' = "done"
    /\ UNCHANGED <<legacyGroups, modernGroups, req, resolved, listed, before>>

\* The response leaves the controller, which keeps nothing of the request.
Respond ==
    /\ pc = "done"
    /\ pc' = "idle"
    /\ req' = NoReq
    /\ calls' = <<>>
    /\ resolved' = NoResolved
    /\ listed' = NoListed
    /\ resp' = NoResp
    /\ before' = NoBefore
    /\ UNCHANGED stores

Next ==
    \/ Show
    \/ Delete
    \/ Create
    \/ Index
    \/ Detail
    \/ Get1
    \/ Get2
    \/ DeleteDispatch
    \/ CreateDispatch
    \/ Respond

Spec == Init /\ [][Next]_vars

----------------------------------------------------------------------------
(* A migration running beside the requests: the backends move an entity    *)
(* from the legacy family to the modern one in one atomic step.            *)

MigrateSnapshot ==
    \E id \in legacySnaps :
        /\ legacySnaps' = legacySnaps \ {id}
        /\ modernSnaps' = modernSnaps \cup {id}
        /\ UNCHANGED <<legacyGroups, modernGroups, pc, req, calls, resolved,
                       listed, resp, before>>

MigrateGroup ==
    \E id \in legacyGroups :
        /\ legacyGroups' = legacyGroups \ {id}
        /\ modernGroups' = modernGroups \cup {id}
        /\ UNCHANGED <<legacySnaps, modernSnaps, pc, req, calls, resolved,
                       listed, resp, before>>

\* The requests that resolve an id and delete nothing, beside the migration.
NextMigrate ==
    \/ Show
    \/ Create
    \/ Get1
    \/ Get2
    \/ CreateDispatch
    \/ Respond
    \/ MigrateSnapshot
    \/ MigrateGroup

SpecMigrate == Init /\ [][NextMigrate]_vars

----------------------------------------------------------------------------
(* Helpers of the properties *)

Resolving == req.op \in {"show", "delete", "create"}

Obj == ObjOf(req.op)

GetCalls == {i \in 1..Len(calls) : calls[i].op = "get"}

CallsOf(family, op) ==
    {i \in 1..Len(calls) : calls[i].family = family /\ calls[i].op = op}

LastCall == calls[Len(calls)]

\* The lookup is over: it returned an entity or raised.
ResolutionOver == resolved.st # "none"

PresentAtStart == req.id \in before.legacy \cup before.modern

NoGetFault == \A i \in GetCalls : ~calls[i].fault

----------------------------------------------------------------------------
(* C1 *)

\* C1: in _get_cgsnapshot and _get_cg the legacy get is the first call; the
\* modern get is made exactly when the legacy get failed with the legacy
\* family's not-found for that kind of object, never after a legacy success
\* (also for an id held by both families) and never after another failure,
\* which is what the lookup raises; a lookup makes 1 or 2 get calls, and an
\* id that neither family holds ends not-found after exactly 2.
ResolveLegacyFirst ==
    Resolving =>
        /\ \A i \in GetCalls : i <= 2
        /\ Len(calls) >= 1 =>
              calls[1].op = "get" /\ calls[1].family = "legacy"
        /\ \A i \in GetCalls :
              calls[i].family = "modern" =>
                 /\ i = 2
                 /\ calls[1].out = OwnNotFound("legacy", Obj)
        /\ pc = "get2" => calls[1].out = OwnNotFound("legacy", Obj)
        /\ ResolutionOver =>
              /\ Cardinality(GetCalls) \in {1, 2}
              /\ Cardinality(GetCalls) = 2
                    <=> calls[1].out = OwnNotFound("legacy", Obj)
              /\ Cardinality(GetCalls) = 2 =>
                    calls[2].family = "modern" /\ calls[2].op = "get"
              /\ calls[1].out = "ok" =>
                    resolved.st = "ok" /\ resolved.family = "legacy"
              /\ calls[1].out \notin {"ok", OwnNotFound("legacy", Obj)} =>
                    resolved.st = "fail" /\ resolved.kind = calls[1].out
              /\ (~PresentAtStart /\ NoGetFault) =>
                    /\ resolved.st = "fail"
                    /\ resolved.kind = OwnNotFound("modern", Obj)
                    /\ Cardinality(GetCalls) = 2

\* An id held only by the modern family was resolved by the second call.
ResolveLegacyFirstWitness ==
    /\ req.op = "show"
    /\ req.id \in before.modern \ before.legacy
    /\ resolved.st = "ok"
    /\ resolved.family = "modern"
    /\ Cardinality(GetCalls) = 2

----------------------------------------------------------------------------
(* C2 *)

\* C2: in delete, a resolved entity of the legacy type never leads to a call
\* of delete_group_snapshot, one of the modern type never to a call of
\* delete_cgsnapshot, and a request makes at most one delete call.
DeleteDispatchOneFamily ==
    req.op = "delete" =>
        /\ Cardinality(CallsOf("legacy", "delete")
                        \cup CallsOf("modern", "delete")) <= 1
        /\ resolved.tag = "CGSnapshot" => CallsOf("modern", "delete") = {}
        /\ resolved.tag = "GroupSnapshot" => CallsOf("legacy", "delete") = {}

\* A legacy snapshot was deleted by the legacy backend.
DeleteDispatchWitness ==
    /\ req.op = "delete"
    /\ pc = "done"
    /\ resolved.tag = "CGSnapshot"
    /\ CallsOf("legacy", "delete") # {}
    /\ resp.status = 202

----------------------------------------------------------------------------
(* C3 *)

\* C3: in create, a resolved modern group leads to create_group_snapshot and
\* to no other create call, a resolved legacy group to create_cgsnapshot and
\* to no other, and a resolved group of neither type to no create call and a
\* 404 response.
CreateDispatchByGroupType ==
    (req.op = "create" /\ resolved.st = "ok") =>
        /\ resolved.tag = "Group" =>
              /\ CallsOf("legacy", "create") = {}
              /\ pc = "done" => Cardinality(CallsOf("modern", "create")) = 1
        /\ resolved.tag = "ConsistencyGroup" =>
              /\ CallsOf("modern", "create") = {}
              /\ pc = "done" => Cardinality(CallsOf("legacy", "create")) = 1
        /\ resolved.tag \notin {"Group", "ConsistencyGroup"} =>
              /\ CallsOf("legacy", "create") = {}
              /\ CallsOf("modern", "create") = {}
              /\ pc = "done" => resp.kind = "http" /\ resp.status = 404

\* A snapshot of a modern group was created by the modern backend.
CreateDispatchWitness ==
    /\ req.op = "create"
    /\ pc = "done"
    /\ resolved.tag = "Group"
    /\ CallsOf("modern", "create") # {}
    /\ resp.status = 202

----------------------------------------------------------------------------
(* C4 *)

\* The number of items of a listing of n items that a window keeps.
WindowSize(n, limit, offset) ==
    IF limit = 0 THEN Max(0, n - offset) ELSE Min(limit, Max(0, n - offset))

\* C4: index and detail return, for the listings L and M the two backends
\* gave, the window of L followed by the window of M, the same limit and
\* offset applied to each on its own: the length is the sum of the two
\* windows' lengths, every legacy item precedes every modern item, and each
\* part keeps its backend's order.  With limit 1, one legacy and two modern
\* snapshots, 2 items are returned, the legacy one first.
ListIsWindowedConcat ==
    (pc = "done" /\ req.op \in {"index", "detail"}) =>
        LET L    == listed.legacy
            M    == listed.modern
            form == IF req.op = "detail" THEN "detail" ELSE "summary"
            nl   == WindowSize(Len(L), req.limit, req.offset)
            nm   == WindowSize(Len(M), req.limit, req.offset)
            out  == resp.items
        IN  /\ resp.status = 200
            /\ Len(out) = nl + nm
            /\ nl = Len(Limited(L, req.limit, req.offset))
            /\ nm = Len(Limited(M, req.limit, req.offset))
            /\ \A i \in 1..nl :
                  out[i] = Render("CGSnapshot", L[req.offset + i], form)
            /\ \A j \in 1..nm :
                  out[nl + j] = Render("GroupSnapshot", M[req.offset + j], form)
            /\ (req.limit = 1 /\ req.offset = 0 /\ Len(L) = 1 /\ Len(M) = 2) =>
                  /\ Len(out) = 2
                  /\ out[1].tag = "CGSnapshot"
                  /\ out[2].tag = "GroupSnapshot"

\* detail with limit 1 while one legacy and two modern snapshots exist.
ListWitness ==
    /\ pc = "done"
    /\ req.op = "detail"
    /\ req.limit = 1
    /\ req.offset = 0
    /\ Len(listed.legacy) = 1
    /\ Len(listed.modern) = 2
    /\ Len(resp.items) = 2

----------------------------------------------------------------------------
(* C5 *)

\* C5: in show, delete and create, a backend call that fails with a
\* not-found of any kind (snapshot or group, legacy or modern), other than
\* the legacy not-found that starts the second lookup, ends the request with
\* that failure reaching the wsgi layer, which answers 404.
NotFoundNeverConverted ==
    (pc = "done" /\ Resolving /\ Len(calls) > 0
        /\ LastCall.out \in NotFoundKinds) =>
            resp = Raised(LastCall.out) /\ resp.status = 404

\* C5, as amended: the same in show and create; in delete only the two
\* snapshot not-founds reach the wsgi layer (404), and a group not-found
\* ends with the generic 400 of the catch-all.
NotFoundPropagation ==
    (pc = "done" /\ Resolving /\ Len(calls) > 0
        /\ LastCall.out \in NotFoundKinds) =>
            IF req.op = "delete" /\ LastCall.out \in GroupNotFoundKinds
              THEN resp = Http(400, "Failed cgsnapshot")
              ELSE resp = Raised(LastCall.out) /\ resp.status = 404

\* The modern delete call found the snapshot gone, and the request ended 404.
NotFoundPropagationWitness ==
    /\ pc = "done"
    /\ req.op = "delete"
    /\ Len(calls) > 0
    /\ LastCall = Call("modern", "delete", "GroupSnapshotNotFound", TRUE)
    /\ resp.kind = "raised"
    /\ resp.status = 404

----------------------------------------------------------------------------
(* C6 *)

\* C6: in delete, a resolved value that is neither a legacy snapshot nor a
\* modern snapshot ends the request with 404 and no delete call.
DeleteUnknownTypeNotFound ==
    (pc = "done" /\ req.op = "delete" /\ resolved.st = "ok"
        /\ resolved.tag \notin {"CGSnapshot", "GroupSnapshot"}) =>
            /\ resp.status = 404
            /\ CallsOf("legacy", "delete") = {}
            /\ CallsOf("modern", "delete") = {}

----------------------------------------------------------------------------
(* C7 *)

\* C7: a delete of an id held only by the modern family, whose
\* delete_group_snapshot fails with an invalid-snapshot failure, ends with
\* 400 and the failure's message after the calls legacy get (not-found),
\* modern get (found), modern delete (invalid); delete_cgsnapshot is not
\* called and both backends hold what they held before.  The same for a
\* legacy snapshot: legacy get (found), legacy delete (invalid), 400.
DeleteInvalidStateIs400 ==
    (pc = "done" /\ req.op = "delete" /\ Len(calls) > 0
        /\ LastCall.op = "delete" /\ LastCall.out \in InvalidSnapshotKinds) =>
            /\ resp = Http(400, LastCall.out)
            /\ legacySnaps = before.legacy
            /\ modernSnaps = before.modern
            /\ req.id \in before.modern \ before.legacy =>
                  /\ calls = <<Call("legacy", "get", "CgSnapshotNotFound", FALSE),
                               Call("modern", "get", "ok", FALSE),
                               Call("modern", "delete", LastCall.out, TRUE)>>
                  /\ CallsOf("legacy", "delete") = {}
            /\ LastCall.family = "legacy" =>
                  /\ req.id \in before.legacy
                  /\ calls = <<Call("legacy", "get", "ok", FALSE),
                               Call("legacy", "delete", LastCall.out, TRUE)>>
                  /\ CallsOf("modern", "delete") = {}

\* The modern backend refused to delete a snapshot only it holds.
DeleteInvalidStateWitness ==
    /\ pc = "done"
    /\ req.op = "delete"
    /\ req.id \in before.modern \ before.legacy
    /\ Len(calls) = 3
    /\ LastCall = Call("modern", "delete", "InvalidGroupSnapshot", TRUE)
    /\ resp.status = 400

----------------------------------------------------------------------------
(* C8 *)

\* C8: in delete, a failure of a lookup call or of the delete call that is
\* neither a snapshot not-found nor an invalid-snapshot failure ends the
\* request with the generic 400; and every delete ends with 202 (only after
\* a delete call that returned), with a snapshot not-found, or with 400.
DeleteOutcomes ==
    (pc = "done" /\ req.op = "delete") =>
        /\ (Len(calls) > 0
              /\ LastCall.out \notin {"ok"} \cup SnapshotNotFoundKinds
                                          \cup InvalidSnapshotKinds) =>
                 resp = Http(400, "Failed cgsnapshot")
        /\ \/ /\ resp.kind = "ok"
              /\ resp.status = 202
              /\ LastCall.op = "delete"
              /\ LastCall.out = "ok"
           \/ /\ resp.kind = "raised"
              /\ resp.msg \in SnapshotNotFoundKinds
           \/ /\ resp.kind = "http"
              /\ resp.status = 400

\* The delete call failed with a failure the controller does not name.
DeleteOutcomesWitness ==
    /\ pc = "done"
    /\ req.op = "delete"
    /\ Len(calls) > 0
    /\ LastCall.op = "delete"
    /\ LastCall.out = "Unexpected"
    /\ resp.status = 400

----------------------------------------------------------------------------
(* C9 *)

\* C9: a create whose body is well formed and holds no consistencygroup_id
\* ends with the 400 "must be specified", and at no point of the request
\* has a backend been called.
CreateMissingGroupId ==
    (req.op = "create" /\ req.shape = "ok" /\ req.nameOk /\ req.id = NoId) =>
        /\ pc = "done"
        /\ calls = <<>>
        /\ resp = Http(400, "'consistencygroup_id' must be specified")

\* Such a request was made.
CreateMissingGroupIdWitness ==
    /\ req.op = "create"
    /\ req.shape = "ok"
    /\ req.nameOk
    /\ req.id = NoId
    /\ pc = "done"

----------------------------------------------------------------------------
(* C10 *)

\* C10: while entities only move from the legacy family to the modern one,
\* each move and each get call atomic, the two families together hold the
\* same ids all through a lookup, and a lookup of an id they held when the
\* request began, whose get calls all gave their store's answer, returns an
\* entity: it never ends not-found.
NoSpuriousNotFound ==
    Resolving =>
        /\ ~ResolutionOver =>
              Store("legacy", Obj) \cup Store("modern", Obj)
                  = before.legacy \cup before.modern
        /\ (ResolutionOver /\ PresentAtStart /\ NoGetFault) =>
              resolved.st = "ok"

\* The entity moved after the request began and was found by the second call.
MigratedDuringLookupWitness ==
    /\ Resolving
    /\ req.id \in before.legacy \ before.modern
    /\ resolved.st = "ok"
    /\ resolved.family = "modern"
    /\ Cardinality(GetCalls) = 2

(* The opposite migration: entities move from the modern family back to    *)
(* the legacy one.  Under it NoSpuriousNotFound does not hold.             *)

MigrateSnapshotBack ==
    \E id \in modernSnaps :
        /\ modernSnaps' = modernSnaps \ {id}
        /\ legacySnaps' = legacySnaps \cup {id}
        /\ UNCHANGED <<legacyGroups, modernGroups, pc, req, calls, resolved,
                       listed, resp, before>>

MigrateGroupBack ==
    \E id \in modernGroups :
        /\ modernGroups' = modernGroups \ {id}
        /\ legacyGroups' = legacyGroups \cup {id}
        /\ UNCHANGED <<legacySnaps, modernSnaps, pc, req, calls, resolved,
                       listed, resp, before>>

NextMigrateBack ==
    \/ Show
    \/ Create
    \/ Get1
    \/ Get2
    \/ CreateDispatch
    \/ Respond
    \/ MigrateSnapshotBack
    \/ MigrateGroupBack

SpecMigrateBack == Init /\ [][NextMigrateBack]_vars

====
